---- MODULE Spec2Model ----
(***************************************************************************)
(* mactone: play macOS system sounds by name, optionally after trimming    *)
(* trailing silence.  The model covers src/mactone/__init__.py: the sound  *)
(* catalog (list_tones), lookup by name (play_system_sound,                *)
(* play_trimmed_system_sound, random_tone), the silence trimmer            *)
(* (trim_silence_from_file) and the module body that generates one         *)
(* <name>_tone function per discovered sound.                              *)
(*                                                                         *)
(* A sound name is a sequence of one-character strings.  An audio buffer   *)
(* is a sequence of samples, one per millisecond (pydub addresses an       *)
(* AudioSegment in milliseconds).                                          *)
(***************************************************************************)
EXTENDS Integers, Sequences, FiniteSets, TLC

(* ------------------------------ bounds --------------------------------- *)
MaxCatalog == 2    \* most *.aiff files in the sound directory
MaxTmp     == 1    \* temporary file names the file system can hand out
MaxLen     == 3    \* longest buffer (ms) given to the trimmer directly

(* The sound names the directory may hold: two that differ only in case,  *)
(* one plain name, and one with an apostrophe, the shell's quote.          *)
Names == {<<"a", "b">>, <<"A", "b">>, <<"b">>, <<"b", "'">>}

(* What a system sound may decode to, in the lookup model. *)
FileBuffers == {<<1, 0>>}

Samples == {0, 1}

(* ---------------------------- sequences -------------------------------- *)
SeqsUpTo(S, n) == UNION {[1..k -> S] : k \in 0..n}

Range(s) == {s[i] : i \in DOMAIN s}

Last(s) == s[Len(s)]

Front(s) == SubSeq(s, 1, Len(s) - 1)

NoDup(s) == \A i, j \in DOMAIN s : i # j => s[i] # s[j]

(* ------------------------------ names ---------------------------------- *)
(* glob returns each matching file once, in directory order. *)
Catalogs == {c \in SeqsUpTo(Names, MaxCatalog) : NoDup(c)}

(* str.lower, character by character *)
LowerChar(c) == IF c = "A" THEN "a" ELSE c

lower(name) == [i \in DOMAIN name |-> LowerChar(name[i])]

(* Code points, for sorted(): ' (39) < A (65) < a (97) < b (98) *)
Ord(c) == CASE c = "'" -> 39 [] c = "A" -> 65 [] c = "a" -> 97 [] c = "b" -> 98

RECURSIVE StrLess(_, _)
StrLess(s, t) ==
    IF s = <<>> THEN t # <<>>
    ELSE IF t = <<>> THEN FALSE
    ELSE IF Ord(Head(s)) # Ord(Head(t)) THEN Ord(Head(s)) < Ord(Head(t))
    ELSE StrLess(Tail(s), Tail(t))

RECURSIVE sorted(_)
sorted(S) ==
    IF S = {} THEN <<>>
    ELSE LET m == CHOOSE x \in S : \A y \in S \ {x} : StrLess(x, y)
         IN  <<m>> \o sorted(S \ {m})

(* ------------------------- the sound directory -------------------------- *)
(* A file of the sound directory is its name followed by the extension.    *)
AiffFile(name) == name \o <<".aiff">>

(* os.path.splitext(os.path.basename(p))[0] *)
splitext(file) == IF Last(file) = ".aiff" THEN Front(file) ELSE file

(* os.path.join(_SOUND_DIR, f"{actual_name}.aiff") *)
SoundPath(actual_name) == [dir |-> "/System/Library/Sounds", base |-> AiffFile(actual_name)]

(* Names a NamedTemporaryFile(suffix=".aiff") can get: no quote in them. *)
TmpPath(i) == [dir |-> "/tmp", base |-> <<"tmp", ToString(i), ".aiff">>]

TmpPaths == {TmpPath(i) : i \in 1..MaxTmp}

(* tempfile.NamedTemporaryFile(suffix=".aiff", delete=False) creates a     *)
(* file under a name no existing file has.  The names are interchangeable: *)
(* the model hands out the unused one of least index, and none when all   *)
(* are taken.  The result is the set of names the call may get.            *)
NamedTemporaryFile(existing) ==
    LET free == {i \in 1..MaxTmp : TmpPath(i) \notin existing}
    IN  {TmpPath(i) : i \in {i \in free : \A j \in free : i <= j}}

(* {s.lower(): s for s in tones}: a later entry replaces an earlier one    *)
(* that has the same lower-case key.                                       *)
RECURSIVE available_dict(_)
available_dict(tones) ==
    IF tones = <<>> THEN <<>>
    ELSE LET prev == available_dict(Front(tones))
             s    == Last(tones)
         IN  [k \in DOMAIN prev \cup {lower(s)} |->
                 IF k = lower(s) THEN s ELSE prev[k]]

(* The message built from the dictionary's keys instead of its values. *)
NotFoundMessageOfKeys(name, available) ==
    [sound |-> name, try_one_of |-> sorted(DOMAIN available)]

(* f"Sound '{name}' not found. Try one of: {', '.join(sorted(available.values()))}" *)
NotFoundMessage(name, available) ==
    [sound |-> name, try_one_of |-> sorted({available[k] : k \in DOMAIN available})]

(* ------------------------------ the player ------------------------------ *)
RECURSIVE Unquote(_)
Unquote(s) ==
    IF s = <<>> THEN <<>>
    ELSE IF Head(s) = "'" THEN Unquote(Tail(s))
    ELSE <<Head(s)>> \o Unquote(Tail(s))

QuoteCount(s) == Cardinality({i \in DOMAIN s : s[i] = "'"})

(* os.system(f"afplay '{path}'"): the shell splits the command line.  An   *)
(* apostrophe inside the path closes the quotation the f-string opened:    *)
(* with an odd number of them the line has an unterminated quote and sh    *)
(* runs nothing; with an even number afplay gets the path without them.    *)
(* os.system raises nothing either way.                                    *)
os_system_afplay(path) ==
    IF QuoteCount(path.base) % 2 = 1
    THEN [ev |-> "sh_syntax_error", path |-> path]
    ELSE [ev |-> "afplay", path |-> [dir |-> path.dir, base |-> Unquote(path.base)]]

(* ------------------------------ the trimmer ----------------------------- *)
Buffers(n) == SeqsUpTo(Samples, n)

Min(a, b) == IF a < b THEN a ELSE b

(* The lists of intervals [start, end), start < end, within lo..n, each    *)
(* starting no earlier than the one before it ends.                        *)
RECURSIVE RangeLists(_, _)
RangeLists(lo, n) ==
    {<<>>} \cup UNION {{<<iv>> \o rest : rest \in RangeLists(iv[2], n)} :
                        iv \in {p \in (lo..n) \X (lo..n) : p[1] < p[2]}}

(* silence.detect_nonsilent(audio, min_silence_len, silence_thresh) is     *)
(* pydub's: every list it can return is a list of [start, end] pairs in    *)
(* milliseconds, in increasing order, non-empty, disjoint and within the   *)
(* segment.  Which of them it returns depends on the samples and the two   *)
(* thresholds; the model leaves that choice open.                          *)
detect_nonsilent(audio, min_silence_len, silence_thresh) ==
    RangeLists(0, Len(audio))

(* A slice that stops one millisecond early. *)
SliceToExclusive(audio, stop) == SubSeq(audio, 1, Min(stop, Len(audio)) - 1)

(* AudioSegment.__getitem__ with slice(None, stop): stop is clamped to the *)
(* segment's length.                                                       *)
SliceTo(audio, stop) == SubSeq(audio, 1, Min(stop, Len(audio)))

(* The cutoff taken from the start of the last interval, [-1][0]. *)
trim_at_last_start(audio, non_silence_ranges) ==
    IF non_silence_ranges # <<>>
    THEN SubSeq(audio, 1, Min(Last(non_silence_ranges)[1], Len(audio)))
    ELSE audio

(* The cut followed by a millisecond of silence. *)
trim_keeping_a_tail(audio, non_silence_ranges) ==
    IF non_silence_ranges # <<>>
    THEN SubSeq(audio, 1, Min(Last(non_silence_ranges)[2], Len(audio))) \o <<0>>
    ELSE audio

(* No else branch: the cutoff stays 0 when nothing is detected. *)
trim_without_else(audio, non_silence_ranges) ==
    IF non_silence_ranges # <<>>
    THEN SubSeq(audio, 1, Min(Last(non_silence_ranges)[2], Len(audio)))
    ELSE <<>>

(* trim_silence_from_file, lines 70-80, on the decoded audio and the       *)
(* detector's answer.                                                      *)
trim_silence_from_file(audio, non_silence_ranges) ==
    IF non_silence_ranges # <<>>
    THEN LET last_non_silent_end == Last(non_silence_ranges)[2]
         IN  SliceTo(audio, last_non_silent_end)
    ELSE audio

(* ------------------------------- state ---------------------------------- *)
VARIABLES
    pc,                 \* "import": the module body has not run; "ready"; "failed"
    sound_dir,          \* the *.aiff files of _SOUND_DIR, in glob's order
    module_globals,     \* the generated functions: function name -> closure
    tmp_files,          \* the temporary files that exist
    call,               \* the last call: function called, argument, outcome, steps
    trim_args,          \* <<silence_thresh, min_silence_len>> given to the trimmer
    audio,              \* the buffer the trimmer decoded
    non_silence_ranges, \* what the detector answered for it
    trimmed_audio,      \* what the trimmer returned
    trims               \* how many times in a row the trimmer has returned

(* The last five describe the trimmer's run within the last call; they are *)
(* at their initial values when the last call did not reach the trimmer.   *)

vars == <<pc, sound_dir, module_globals, tmp_files, call, trim_args, audio,
          non_silence_ranges, trimmed_audio, trims>>

trim_vars == <<trim_args, audio, non_silence_ranges, trimmed_audio, trims>>

(* list_tones(): the names of the files glob finds, extension removed *)
list_tones == [i \in DOMAIN sound_dir |-> splitext(sound_dir[i])]

NoCall == [op |-> <<"none">>, name |-> <<>>, raised |-> "none", message |-> "",
           try_one_of |-> <<>>, events |-> <<>>]

Returned(op, name, events) ==
    [op |-> op, name |-> name, raised |-> "none", message |-> "",
     try_one_of |-> <<>>, events |-> events]

Raised(op, name, exc, message, try_one_of, events) ==
    [op |-> op, name |-> name, raised |-> exc, message |-> message,
     try_one_of |-> try_one_of, events |-> events]

Event(ev, path) == [ev |-> ev, path |-> path]

DefaultArgs == <<-50, 100>>

NoTrim ==
    /\ trim_args' = DefaultArgs
    /\ audio' = <<>>
    /\ non_silence_ranges' = <<>>
    /\ trimmed_audio' = <<>>
    /\ trims' = 0

TrimArgs == {<<-50, 100>>, <<-16, 1>>}

Init ==
    /\ pc = "import"
    /\ sound_dir \in {[i \in DOMAIN c |-> AiffFile(c[i])] : c \in Catalogs}
    /\ module_globals = <<>>
    /\ tmp_files = {}
    /\ call = NoCall
    /\ trim_args = DefaultArgs
    /\ audio = <<>>
    /\ non_silence_ranges = <<>>
    /\ trimmed_audio = <<>>
    /\ trims = 0

(* --------------------------- module body -------------------------------- *)
(* tone_func reading the loop variable when it is called: every function  *)
(* then plays the sound enumerated last.                                   *)
make_tone_func_late_binding(name) ==
    [func_name |-> lower(name) \o <<"_tone">>, name |-> Last(list_tones)]

(* make_tone_func(name): a closure over its own parameter *)
make_tone_func(name) == [func_name |-> lower(name) \o <<"_tone">>, name |-> name]

(* for _tone_name in list_tones(): globals()[func_name] = make_tone_func(_tone_name) *)
RECURSIVE GenerateToneFuncs(_)
GenerateToneFuncs(tones) ==
    IF tones = <<>> THEN <<>>
    ELSE LET prev == GenerateToneFuncs(Front(tones))
             f    == make_tone_func(Last(tones))
         IN  [k \in DOMAIN prev \cup {f.func_name} |->
                 IF k = f.func_name THEN f ELSE prev[k]]

(* del _tone_name, make_tone_func, func_name: the three names exist only   *)
(* if the loop body ran at least once.                                     *)
CleanUpRaises(tones) == tones = <<>>

(* Lines 152-167, run once when the module is imported. *)
ImportModule ==
    /\ pc = "import"
    /\ module_globals' = GenerateToneFuncs(list_tones)
    /\ IF CleanUpRaises(list_tones)
       THEN /\ pc' = "failed"
            /\ call' = Raised(<<"import">>, <<>>, "NameError", "_tone_name", <<>>, <<>>)
       ELSE /\ pc' = "ready"
            /\ call' = Returned(<<"import">>, <<>>, <<>>)
    /\ UNCHANGED <<sound_dir, tmp_files, trim_vars>>

(* The directory is read again by every call (line 14), and a file of it  *)
(* may be gone by then.  call then forgets the call made before: it        *)
(* describes a call made with the directory as it is.                      *)
RemoveSoundFile(i) ==
    /\ pc = "ready"
    /\ i \in DOMAIN sound_dir
    /\ sound_dir' = SubSeq(sound_dir, 1, i - 1) \o SubSeq(sound_dir, i + 1, Len(sound_dir))
    /\ call' = NoCall
    /\ NoTrim
    /\ UNCHANGED <<pc, module_globals, tmp_files>>

(* ------------------------------ lookups --------------------------------- *)
(* play_system_sound with random_tone's check for an empty catalog. *)
play_system_sound_checking_empty(op, name) ==
    LET available == available_dict(list_tones)
        name_lc   == lower(name)
    IN  IF list_tones = <<>>
        THEN Raised(op, name, "RuntimeError", "No system tones found.", <<>>, <<>>)
        ELSE IF name_lc \in DOMAIN available
        THEN Returned(op, name, <<os_system_afplay(SoundPath(available[name_lc]))>>)
        ELSE Raised(op, name, "ValueError", "not found",
                    NotFoundMessage(name, available).try_one_of, <<>>)

(* play_system_sound(name), lines 18-27; op is the entry point called *)
play_system_sound(op, name) ==
    LET available == available_dict(list_tones)
        name_lc   == lower(name)
    IN  IF name_lc \in DOMAIN available
        THEN LET actual_name == available[name_lc]
                 path        == SoundPath(actual_name)
             IN  Returned(op, name, <<os_system_afplay(path)>>)
        ELSE Raised(op, name, "ValueError", "not found",
                    NotFoundMessage(name, available).try_one_of, <<>>)

PlaySystemSound(name) ==
    /\ pc = "ready"
    /\ call' = play_system_sound(<<"play_system_sound">>, name)
    /\ NoTrim
    /\ UNCHANGED <<pc, sound_dir, module_globals, tmp_files>>

(* random_tone(), lines 34-40 *)
RandomTone ==
    /\ pc = "ready"
    /\ LET tones == list_tones
       IN  IF tones # <<>>
           THEN \E i \in DOMAIN tones :
                    call' = play_system_sound(<<"random_tone">>, tones[i])
           ELSE call' = Raised(<<"random_tone">>, <<>>, "RuntimeError",
                               "No system tones found.", <<>>, <<>>)
    /\ NoTrim
    /\ UNCHANGED <<pc, sound_dir, module_globals, tmp_files>>

(* play_trimmed_system_sound(name, silence_thresh, min_silence_len),       *)
(* lines 92-109.  The decoder and the encoder are pydub's and may raise.   *)
play_trimmed_system_sound(op, name, args) ==
    LET available == available_dict(list_tones)
        name_lc   == lower(name)
    IN  IF name_lc \in DOMAIN available
        THEN LET actual_name == available[name_lc]
                 path        == SoundPath(actual_name)
             IN  \/ \* AudioSegment.from_file raises
                    /\ call' = Raised(op, name, "CouldntDecodeError", "", <<>>,
                                      <<Event("decode", path)>>)
                    /\ NoTrim
                    /\ UNCHANGED tmp_files
                 \/ \E buf \in FileBuffers :
                    \E ranges \in detect_nonsilent(buf, args[2], args[1]) :
                    \E temp_path \in NamedTemporaryFile(tmp_files) :
                    LET trimmed == trim_silence_from_file(buf, ranges)
                        head    == <<Event("decode", path), Event("trim", path),
                                     Event("mktemp", temp_path),
                                     Event("export", temp_path)>>
                    IN  /\ trim_args' = args
                        /\ audio' = buf
                        /\ non_silence_ranges' = ranges
                        /\ trimmed_audio' = trimmed
                        /\ trims' = 1
                        /\ \/ \* trimmed_audio.export raises inside the with block
                              /\ call' = Raised(op, name, "CouldntEncodeError", "",
                                                <<>>, head)
                              /\ tmp_files' = tmp_files \cup {temp_path}
                           \/ /\ call' = Returned(op, name,
                                    head \o <<os_system_afplay(temp_path),
                                              Event("remove", temp_path)>>)
                              /\ tmp_files' = tmp_files
        ELSE /\ call' = Raised(op, name, "ValueError", "not found",
                               NotFoundMessage(name, available).try_one_of, <<>>)
             /\ NoTrim
             /\ UNCHANGED tmp_files

PlayTrimmedSystemSound(name, args) ==
    /\ pc = "ready"
    /\ play_trimmed_system_sound(<<"play_trimmed_system_sound">>, name, args)
    /\ UNCHANGED <<pc, sound_dir, module_globals>>

(* tone_func(), lines 157-158: a generated <name>_tone function *)
ToneFunc(func_name) ==
    /\ pc = "ready"
    /\ func_name \in DOMAIN module_globals
    /\ play_trimmed_system_sound(func_name, module_globals[func_name].name, DefaultArgs)
    /\ UNCHANGED <<pc, sound_dir, module_globals>>

Next ==
    \/ ImportModule
    \/ \E i \in 1..MaxCatalog : RemoveSoundFile(i)
    \/ \E name \in Names : PlaySystemSound(name)
    \/ RandomTone
    \/ \E name \in Names, args \in TrimArgs : PlayTrimmedSystemSound(name, args)
    \/ \E name \in Names : ToneFunc(lower(name) \o <<"_tone">>)

Spec == Init /\ [][Next]_vars

(* ------------------- the trimmer, called directly ------------------------ *)
InitTrim ==
    /\ pc = "ready"
    /\ sound_dir = <<AiffFile(<<"b">>)>>
    /\ module_globals = GenerateToneFuncs(<<<<"b">>>>)
    /\ tmp_files = {}
    /\ call = Returned(<<"import">>, <<>>, <<>>)
    /\ trim_args = DefaultArgs
    /\ audio = <<>>
    /\ non_silence_ranges = <<>>
    /\ trimmed_audio = <<>>
    /\ trims = 0

(* trim_silence_from_file(file_path, silence_thresh, min_silence_len),     *)
(* lines 58-80, on a file that decodes to buf                              *)
TrimSilenceFromFile(buf, args) ==
    /\ pc = "ready"
    /\ \E ranges \in detect_nonsilent(buf, args[2], args[1]) :
          /\ non_silence_ranges' = ranges
          /\ trimmed_audio' = trim_silence_from_file(buf, ranges)
    /\ audio' = buf
    /\ trim_args' = args
    /\ trims' = 1
    /\ call' = Returned(<<"trim_silence_from_file">>, <<>>, <<>>)
    /\ UNCHANGED <<pc, sound_dir, module_globals, tmp_files>>

(* line 59 on a file the decoder rejects *)
TrimUndecodable ==
    /\ pc = "ready"
    /\ call' = Raised(<<"trim_silence_from_file">>, <<>>, "CouldntDecodeError", "", <<>>, <<>>)
    /\ NoTrim
    /\ UNCHANGED <<pc, sound_dir, module_globals, tmp_files>>

(* The trimmer applied to its own result, with the same two thresholds. *)
TrimAgain ==
    /\ pc = "ready"
    /\ trims >= 1
    /\ call.op = <<"trim_silence_from_file">>
    /\ \E ranges \in detect_nonsilent(trimmed_audio, trim_args[2], trim_args[1]) :
          /\ non_silence_ranges' = ranges
          /\ trimmed_audio' = trim_silence_from_file(trimmed_audio, ranges)
    /\ audio' = trimmed_audio
    /\ trims' = 2
    /\ call' = Returned(<<"trim_silence_from_file">>, <<>>, <<>>)
    /\ UNCHANGED <<pc, sound_dir, module_globals, tmp_files, trim_args>>

NextTrim ==
    \/ \E buf \in Buffers(MaxLen), args \in TrimArgs : TrimSilenceFromFile(buf, args)
    \/ TrimUndecodable
    \/ TrimAgain

SpecTrim == InitTrim /\ [][NextTrim]_vars

Trimmed == trims >= 1 /\ call.op = <<"trim_silence_from_file">> /\ call.raised = "none"

(* C1: when the detector returns a non-empty list whose last interval ends *)
(* at p, the trimmer returns exactly the prefix of the buffer of length p: *)
(* its length is p and every position below p holds the buffer's sample,   *)
(* wherever the first interval starts.                                     *)
C1_TrimReturnsPrefix ==
    (Trimmed /\ non_silence_ranges # <<>>) =>
        LET p == Last(non_silence_ranges)[2]
        IN  /\ Len(trimmed_audio) = p
            /\ \A i \in 1..p : trimmed_audio[i] = audio[i]

C1_Witness ==
    /\ Trimmed
    /\ audio = <<0, 1, 0>>
    /\ non_silence_ranges = << <<1, 2>> >>
    /\ trimmed_audio = <<0, 1>>

(* C2: for every buffer and every pair of thresholds the trimmed buffer is *)
(* no longer than the buffer.                                              *)
C2_TrimNeverLonger == Trimmed => Len(trimmed_audio) <= Len(audio)

C2_Witness ==
    /\ Trimmed
    /\ trim_args # DefaultArgs
    /\ Len(trimmed_audio) < Len(audio)

(* C3: when the detector returns the empty list the trimmer returns the    *)
(* buffer unmodified, same length and same samples, and raises nothing.    *)
C3_EmptyListKeepsBuffer ==
    (trims >= 1 /\ call.op = <<"trim_silence_from_file">> /\ non_silence_ranges = <<>>) =>
        /\ call.raised = "none"
        /\ trimmed_audio = audio

C3_Witness ==
    /\ Trimmed
    /\ non_silence_ranges = <<>>
    /\ audio = <<0, 0, 0>>
    /\ trimmed_audio = <<0, 0, 0>>

(* C6: trimming is idempotent: when the detector finds the trimmed buffer  *)
(* non-silent up to its end, trimming it again with the same thresholds    *)
(* returns that same buffer.                                               *)
C6_TrimIdempotent ==
    (Trimmed /\ trims = 2 /\ non_silence_ranges # <<>>
        /\ Last(non_silence_ranges)[2] = Len(audio)) =>
        trimmed_audio = audio

C6_Witness ==
    /\ Trimmed
    /\ trims = 2
    /\ audio = <<0, 1>>
    /\ non_silence_ranges = << <<1, 2>> >>
    /\ trimmed_audio = <<0, 1>>

(* ------------------------- claims on lookups ---------------------------- *)
ByNameOps == {<<"play_system_sound">>, <<"play_trimmed_system_sound">>}

IsToneFunc(op) == \E n \in Names : op = lower(n) \o <<"_tone">>

LowerForms(tones) == {lower(tones[i]) : i \in DOMAIN tones}

(* The entry of tones enumerated last among those whose lower-case form is k *)
LastOfForm(tones, k) ==
    LET is == {i \in DOMAIN tones : lower(tones[i]) = k}
    IN  tones[CHOOSE i \in is : \A j \in is : j <= i]

(* The catalog names that no later entry repeats in another case *)
Unshadowed(tones) ==
    {tones[i] : i \in {i \in DOMAIN tones :
                         \A j \in DOMAIN tones : j > i => lower(tones[j]) # lower(tones[i])}}

Increasing(names) ==
    \A i \in DOMAIN names : i > 1 => StrLess(names[i - 1], names[i])

(* C4 as stated: with an empty catalog a lookup by name raises the Empty   *)
(* Catalog error and not the Not Found error.                              *)
C4_EmptyCatalogLookupRaisesEmptyCatalog ==
    (call.op \in ByNameOps /\ list_tones = <<>>) =>
        /\ call.raised = "RuntimeError"
        /\ call.message = "No system tones found."

(* C4, amended: with an empty catalog random_tone raises the Empty Catalog *)
(* error (RuntimeError), which is not the Not Found error; a lookup by     *)
(* name raises the Not Found error (ValueError) with no alternative        *)
(* listed.  Neither invokes the player.                                    *)
C4_EmptyCatalogErrors ==
    list_tones = <<>> =>
        /\ call.op = <<"random_tone">> =>
              /\ call.raised = "RuntimeError"
              /\ call.message = "No system tones found."
              /\ call.events = <<>>
        /\ call.op \in ByNameOps =>
              /\ call.raised = "ValueError"
              /\ call.message = "not found"
              /\ call.try_one_of = <<>>
              /\ call.events = <<>>

C4_Witness ==
    /\ list_tones = <<>>
    /\ call.op = <<"play_trimmed_system_sound">>
    /\ call.raised = "ValueError"

(* C5 as stated: a name that matches no catalog name, case ignored, raises *)
(* Not Found with a message listing every catalog name, and nothing is     *)
(* played, decoded or created.                                             *)
C5_NotFoundListsEveryName ==
    (call.op \in ByNameOps /\ lower(call.name) \notin LowerForms(list_tones)) =>
        /\ call.raised = "ValueError"
        /\ Range(call.try_one_of) = Range(list_tones)
        /\ call.events = <<>>

(* C5, amended: such a name raises Not Found with a message listing, in    *)
(* increasing order, every catalog name that no later catalog entry        *)
(* repeats in another case (of names that differ only in case, the one     *)
(* enumerated last), and nothing is played, decoded or created.            *)
C5_NotFoundListsUnshadowedNames ==
    (call.op \in ByNameOps /\ lower(call.name) \notin LowerForms(list_tones)) =>
        /\ call.raised = "ValueError"
        /\ call.message = "not found"
        /\ Range(call.try_one_of) = Unshadowed(list_tones)
        /\ Increasing(call.try_one_of)
        /\ call.events = <<>>

C5_Witness ==
    /\ call.op = <<"play_system_sound">>
    /\ list_tones = << <<"a", "b">>, <<"A", "b">> >>
    /\ call.name = <<"b">>
    /\ call.raised = "ValueError"
    /\ call.try_one_of = << <<"A", "b">> >>

(* C7: a requested name whose lower-case form is that of a catalog entry   *)
(* makes play_system_sound raise nothing and invoke the player exactly     *)
(* once, on the file of a catalog entry with that lower-case form.         *)
C7_LookupIgnoresCase ==
    (call.op = <<"play_system_sound">> /\ lower(call.name) \in LowerForms(list_tones)) =>
        /\ call.raised = "none"
        /\ Len(call.events) = 1
        /\ call.events[1].ev = "afplay"
        /\ \E i \in DOMAIN list_tones :
              /\ lower(list_tones[i]) = lower(call.name)
              /\ call.events[1].path = SoundPath(list_tones[i])

(* C9: importing the module completes without error for every catalog,     *)
(* the empty one included.                                                 *)
C9_ImportCompletes ==
    /\ pc # "failed"
    /\ call.op = <<"import">> => call.raised = "none"

ToneFuncName(name) == lower(name) \o <<"_tone">>

JustImported == pc = "ready" /\ call.op = <<"import">>

(* The steps of a trimmed playback of sound file p through temp file t *)
TrimmedPlayback(p, t) ==
    <<Event("decode", p), Event("trim", p), Event("mktemp", t), Event("export", t),
      Event("afplay", t), Event("remove", t)>>

(* C8 as stated: for every catalog name N at load time the module defines  *)
(* lowercase(N)_tone, bound to N itself, and a call of it plays the        *)
(* trimmed sound N.                                                        *)
C8_EachNameHasItsOwnFunction ==
    /\ JustImported =>
          \A i \in DOMAIN list_tones :
              /\ ToneFuncName(list_tones[i]) \in DOMAIN module_globals
              /\ module_globals[ToneFuncName(list_tones[i])].name = list_tones[i]
    /\ (IsToneFunc(call.op) /\ call.raised = "none") =>
          \A i \in DOMAIN list_tones :
              ToneFuncName(list_tones[i]) = call.op =>
                  call.events[1] = Event("decode", SoundPath(list_tones[i]))

(* C8, amended: for every catalog name N at load time the module defines   *)
(* lowercase(N)_tone and nothing else; the function is bound to the        *)
(* catalog name enumerated last among those with N's lower-case form (N    *)
(* itself when no later name differs from N only in case), not to the last *)
(* sound enumerated; functions with different names are bound to names     *)
(* with different lower-case forms; and a call made while the bound name   *)
(* is still the last catalog entry of its lower-case form finds it,        *)
(* decodes that sound's file first and, when it returns, has trimmed it,   *)
(* exported it to a temporary file, played that file and removed it.       *)
C8_FunctionsBoundToLastOfForm ==
    /\ JustImported =>
          /\ DOMAIN module_globals = {ToneFuncName(list_tones[i]) : i \in DOMAIN list_tones}
          /\ \A i \in DOMAIN list_tones :
                LET f == module_globals[ToneFuncName(list_tones[i])]
                IN  /\ f.name = LastOfForm(list_tones, lower(list_tones[i]))
                    /\ f.func_name = ToneFuncName(list_tones[i])
    /\ pc = "ready" =>
          \A k1, k2 \in DOMAIN module_globals :
              k1 # k2 => lower(module_globals[k1].name) # lower(module_globals[k2].name)
    /\ (IsToneFunc(call.op) /\ call.op \in DOMAIN module_globals
            /\ module_globals[call.op].name \in Unshadowed(list_tones)) =>
          LET bound == module_globals[call.op].name
          IN  /\ call.name = bound
              /\ call.raised # "ValueError"
              /\ call.events[1] = Event("decode", SoundPath(bound))
              /\ call.raised = "none" =>
                    \E t \in TmpPaths : call.events = TrimmedPlayback(SoundPath(bound), t)

C8_Witness ==
    /\ list_tones = << <<"a", "b">>, <<"b">> >>
    /\ call.op = <<"a", "b", "_tone">>
    /\ call.raised = "none"
    /\ call.events[1] = Event("decode", SoundPath(<<"a", "b">>))
    /\ module_globals[<<"b", "_tone">>].name = <<"b">>

(* C10: a found name makes play_trimmed_system_sound decode and trim,      *)
(* export to a fresh temporary file, play that file and remove it, in this *)
(* order; and when the call has ended, by returning or by an error raised  *)
(* during export, the temporary file it created does not exist.            *)
C10_TempFileRemoved ==
    (call.op = <<"play_trimmed_system_sound">>
        /\ lower(call.name) \in LowerForms(list_tones)) =>
        /\ call.raised = "none" =>
              \E t \in TmpPaths :
                  call.events =
                      TrimmedPlayback(SoundPath(LastOfForm(list_tones, lower(call.name))), t)
        /\ \A i \in DOMAIN call.events :
              call.events[i].ev = "mktemp" => call.events[i].path \notin tmp_files

====
